---------------------------- MODULE Spec2Model ----------------------------
(***************************************************************************)
(* The ETL batch job (src/etl.py) and the sales dashboard (src/app.py) of  *)
(* etl-sales-dashboard, as one state machine over the shared `sales`       *)
(* table.                                                                  *)
(*                                                                         *)
(* Encoding of values.  A cell of a data frame is a tuple: <<>> is the     *)
(* missing value (NaN / NULL / NaT), <<v>> a present text or number, a     *)
(* date written in the file as "d/m/y" is <<d, m, y>>, and a parsed        *)
(* timestamp is <<y, m, d>>.  A column name is the sequence of its         *)
(* characters.  A data frame is [columns |-> names, rows |-> rows], each   *)
(* row a tuple of cells aligned with the columns.  Money is counted in     *)
(* whole units.                                                            *)
(***************************************************************************)
EXTENDS Integers, Sequences, FiniteSets, TLC

VARIABLES
    file,          \* the source file at config.RAW_DATA_PATH
    dbTable,       \* the `sales` table behind config.DB_URL
    etlPc,         \* position of the batch job in __main__
    etlDf,         \* the job's df
    log,           \* lines the current job run has written to logs/etl.log
    runs,          \* number of job runs started
    tableAtStart,  \* history: the table when the current run started
    runResults,    \* history: the table after each run that exited 0
    cache,         \* st.cache_data entry of load_data: <<>> or <<df>>
    reqPc,         \* position of each dashboard script run
    reqDf,         \* df of each script run (app.py line 28)
    served,        \* where each script run's df came from
    out,           \* what each script run computed and rendered
    tableVersion,  \* history: number of times the job has written the table
    readAt,        \* history: tableVersion when each script run queried
    racing         \* history: both script runs found the cache empty, the
                   \* second while the first was still computing or storing

vars == <<file, dbTable, etlPc, etlDf, log, runs, tableAtStart, runResults,
          cache, reqPc, reqDf, served, out, tableVersion, readAt, racing>>

etlVars == <<file, etlPc, etlDf, log, runs, tableAtStart, runResults, tableVersion>>
dashVars == <<cache, reqPc, reqDf, served, out, readAt, racing>>

---------------------------------------------------------------------------
(* Bounds of the model *)

MaxRows == 2

MaxRuns == 2

---------------------------------------------------------------------------
(* Values *)

NULL == <<>>

IsNull(cell) == cell = NULL

Range(s) == {s[i] : i \in 1..Len(s)}

Last(s) == s[Len(s)]

SeqsUpTo(S, n) == UNION {[1..k -> S] : k \in 0..n}

EmptyDf == [columns |-> <<>>, rows |-> <<>>]

---------------------------------------------------------------------------
(* Column names: str.strip, str.lower, str.replace *)

UpperCase == <<"A","B","C","D","E","F","G","H","I","J","K","L","M",
               "N","O","P","Q","R","S","T","U","V","W","X","Y","Z">>

LowerCase == <<"a","b","c","d","e","f","g","h","i","j","k","l","m",
               "n","o","p","q","r","s","t","u","v","w","x","y","z">>

LowerChar(ch) ==
    IF \E i \in 1..26 : UpperCase[i] = ch
    THEN LowerCase[CHOOSE i \in 1..26 : UpperCase[i] = ch]
    ELSE ch

RECURSIVE StripLeft(_)
StripLeft(s) ==
    IF s # <<>> /\ Head(s) = " " THEN StripLeft(Tail(s)) ELSE s

RECURSIVE StripRight(_)
StripRight(s) ==
    IF s # <<>> /\ Last(s) = " "
    THEN StripRight(SubSeq(s, 1, Len(s) - 1))
    ELSE s

Strip(s) == StripRight(StripLeft(s))

Lower(s) == [i \in 1..Len(s) |-> LowerChar(s[i])]

ReplaceSpace(s) == [i \in 1..Len(s) |-> IF s[i] = " " THEN "_" ELSE s[i]]

NormalizeName(c) == ReplaceSpace(Lower(Strip(c)))

ORDER_DATE == <<"o","r","d","e","r","_","d","a","t","e">>
REGION == <<"r","e","g","i","o","n">>
CATEGORY == <<"c","a","t","e","g","o","r","y">>
PRODUCT_NAME == <<"p","r","o","d","u","c","t","_","n","a","m","e">>
CUSTOMER_ID == <<"c","u","s","t","o","m","e","r","_","i","d">>
SALES == <<"s","a","l","e","s">>

---------------------------------------------------------------------------
(* Inputs: headers and rows the files and tables are drawn from *)

RawHeader ==
    << <<"O","r","d","e","r"," ","D","a","t","e">>,
       <<" ","R","e","g","i","o","n">>,
       <<"C","a","t","e","g","o","r","y"," ">>,
       <<"P","r","o","d","u","c","t"," ","N","a","m","e">>,
       <<"C","u","s","t","o","m","e","r"," ","I","D">>,
       <<"S","A","L","E","S">> >>

\* a file whose region column is headed "Territory"
RawHeaderAlt == [RawHeader EXCEPT ![2] = <<"T","e","r","r","i","t","o","r","y">>]

\* a file without a date column: the date is headed "Shipped"
RawHeaderNoDate == [RawHeader EXCEPT ![1] = <<"S","h","i","p","p","e","d">>]

CleanHeader == <<ORDER_DATE, REGION, CATEGORY, PRODUCT_NAME, CUSTOMER_ID, SALES>>

MkRow(d, r, c, p, k, s) == <<d, r, c, p, k, s>>

RowEU == MkRow(<<5, 1, 2024>>, <<"EU">>, <<"A">>, <<"Widget">>, <<1>>, <<5000>>)
RowUS == MkRow(<<10, 2, 2024>>, <<"US">>, <<"B">>, <<"Gadget">>, <<2>>, <<5001>>)
RowRefund == MkRow(<<31, 1, 2024>>, <<"EU">>, <<"B">>, <<"Gadget">>, <<1>>, <<-5001>>)
RowFree == MkRow(<<10, 2, 2024>>, <<"EU">>, <<"A">>, <<"Widget">>, <<3>>, <<0>>)
RowSmall == MkRow(<<5, 1, 2024>>, <<"US">>, <<"A">>, <<"Gadget">>, <<2>>, <<1>>)
RowNoRegion == MkRow(<<5, 1, 2024>>, NULL, <<"A">>, <<"Widget">>, <<2>>, <<5000>>)
RowNoCategory == MkRow(<<31, 1, 2024>>, <<"US">>, NULL, <<"Gadget">>, <<3>>, <<5001>>)
RowNoSales == MkRow(<<10, 2, 2024>>, <<"US">>, <<"A">>, <<"Widget">>, <<2>>, NULL)
\* "31/02/2024" is no calendar date
RowBadDate == MkRow(<<31, 2, 2024>>, <<"US">>, <<"A">>, <<"Widget">>, <<3>>, <<5001>>)

FileRows == {RowEU, RowUS, RowNoRegion, RowNoSales}

TableRows ==
    {RowEU, RowUS, RowRefund, RowFree, RowSmall, RowNoRegion, RowNoCategory, RowBadDate}

MkFile(readable, columns, rows) ==
    [readable |-> readable, columns |-> columns, rows |-> rows]

UnreadableFile == MkFile(FALSE, <<>>, <<>>)

SourceFiles ==
    {MkFile(TRUE, RawHeader, rows) : rows \in SeqsUpTo(FileRows, MaxRows)}
        \cup {UnreadableFile}

PriorTables ==
    { EmptyDf,
      [columns |-> CleanHeader, rows |-> <<RowRefund>>],
      [columns |-> CleanHeader, rows |-> <<RowEU, RowNoCategory>>] }

---------------------------------------------------------------------------
(* src/etl.py *)

LogLine(level, stage) == [level |-> level, stage |-> stage]

\* pd.read_csv: the header row becomes the columns, an empty field NaN
read_csv(f) == [columns |-> f.columns, rows |-> f.rows]

Complete(row) == \A i \in 1..Len(row) : ~IsNull(row[i])

\* dropna(how="all"): only rows with every field missing are dropped
dropna_how_all(df) ==
    [df EXCEPT !.rows = SelectSeq(df.rows,
                                  LAMBDA row : \E i \in 1..Len(row) : ~IsNull(row[i]))]

dropna(df) == [df EXCEPT !.rows = SelectSeq(df.rows, Complete)]

RenameColumns(df) ==
    [df EXCEPT !.columns = [i \in 1..Len(df.columns) |-> NormalizeName(df.columns[i])]]

transform(df) == dropna(RenameColumns(df))

\* if_exists="append": the new rows are added to the rows already there
to_sql_append(df, table) ==
    [columns |-> df.columns, rows |-> table.rows \o df.rows]

\* DataFrame.to_sql("sales", if_exists="replace", index=False)
to_sql(df, table) == [columns |-> df.columns, rows |-> df.rows]

\* the table a failed load can leave: untouched, or dropped and recreated
\* without its rows where the engine commits DDL on its own
AfterFailedLoad(df, table) == {table, [columns |-> df.columns, rows |-> <<>>]}

StartJob ==
    /\ etlPc \in {"idle", "exit0", "exit1"}
    /\ runs < MaxRuns
    /\ runs' = runs + 1
    /\ etlPc' = "extract"
    /\ etlDf' = EmptyDf
    /\ log' = <<>>
    /\ tableAtStart' = dbTable
    /\ UNCHANGED <<file, dbTable, runResults, tableVersion>>
    /\ UNCHANGED dashVars

Extract ==
    /\ etlPc = "extract"
    /\ file.readable
    /\ etlDf' = read_csv(file)
    /\ log' = Append(log, LogLine("INFO", "extract"))
    /\ etlPc' = "transform"
    /\ UNCHANGED <<file, dbTable, runs, tableAtStart, runResults, tableVersion>>
    /\ UNCHANGED dashVars

ExtractFail ==
    /\ etlPc = "extract"
    /\ ~file.readable
    /\ log' = Append(log, LogLine("ERROR", "extract"))
    /\ etlPc' = "exit1"
    /\ UNCHANGED <<file, dbTable, etlDf, runs, tableAtStart, runResults, tableVersion>>
    /\ UNCHANGED dashVars

Transform ==
    /\ etlPc = "transform"
    /\ etlDf' = transform(etlDf)
    /\ log' = Append(log, LogLine("INFO", "transform"))
    /\ etlPc' = "load"
    /\ UNCHANGED <<file, dbTable, runs, tableAtStart, runResults, tableVersion>>
    /\ UNCHANGED dashVars

\* the handler logs the error and returns the frame instead of raising
TransformFailSwallowed ==
    /\ etlPc = "transform"
    /\ log' = Append(log, LogLine("ERROR", "transform"))
    /\ etlPc' = "load"
    /\ UNCHANGED <<file, dbTable, etlDf, runs, tableAtStart, runResults, tableVersion>>
    /\ UNCHANGED dashVars

\* an exception inside the try block of transform
TransformFail ==
    /\ etlPc = "transform"
    /\ log' = Append(log, LogLine("ERROR", "transform"))
    /\ etlPc' = "exit1"
    /\ UNCHANGED <<file, dbTable, etlDf, runs, tableAtStart, runResults, tableVersion>>
    /\ UNCHANGED dashVars

Load ==
    /\ etlPc = "load"
    /\ dbTable' = to_sql(etlDf, dbTable)
    /\ log' = Append(log, LogLine("INFO", "load"))
    /\ etlPc' = "exit0"
    /\ runResults' = Append(runResults, dbTable')
    /\ tableVersion' = tableVersion + 1
    /\ UNCHANGED <<file, etlDf, runs, tableAtStart>>
    /\ UNCHANGED dashVars

\* create_engine or to_sql raises
LoadFail ==
    /\ etlPc = "load"
    /\ dbTable' \in AfterFailedLoad(etlDf, dbTable)
    /\ tableVersion' = IF dbTable' = dbTable THEN tableVersion ELSE tableVersion + 1
    /\ log' = Append(log, LogLine("ERROR", "load"))
    /\ etlPc' = "exit1"
    /\ UNCHANGED <<file, etlDf, runs, tableAtStart, runResults>>
    /\ UNCHANGED dashVars

EtlStep ==
    \/ StartJob
    \/ Extract
    \/ ExtractFail
    \/ Transform
    \/ TransformFail
    \/ Load
    \/ LoadFail


---------------------------------------------------------------------------
(* src/app.py: load_data *)

HasCol(df, name) == \E i \in 1..Len(df.columns) : df.columns[i] = name

\* the first column of that name
ColIndex(df, name) ==
    CHOOSE i \in 1..Len(df.columns) :
        /\ df.columns[i] = name
        /\ \A j \in 1..(i - 1) : df.columns[j] # name

Cell(df, row, name) == row[ColIndex(df, name)]

NaT == <<>>

IsLeap(y) == (y % 4 = 0 /\ y % 100 # 0) \/ y % 400 = 0

DaysInMonth(m, y) ==
    IF m = 2 THEN (IF IsLeap(y) THEN 29 ELSE 28)
    ELSE IF m \in {4, 6, 9, 11} THEN 30 ELSE 31

\* pd.to_datetime(..., dayfirst=True, errors="coerce") of the text "a/b/y":
\* day a of month b, and NaT for a missing value or for text that is no
\* date.  (Text that is a date only when read month first, such as
\* "01/31/2024", is not among the inputs.)
to_datetime(cell) ==
    IF /\ Len(cell) = 3
       /\ cell[2] \in 1..12
       /\ cell[1] \in 1..DaysInMonth(cell[2], cell[3])
    THEN <<cell[3], cell[2], cell[1]>>
    ELSE NaT

\* pd.read_sql("SELECT * FROM sales", engine)
read_sql(table) == [columns |-> table.columns, rows |-> table.rows]

ParseDateColumn(df) ==
    [df EXCEPT !.rows =
        [i \in 1..Len(df.rows) |->
            [df.rows[i] EXCEPT ![ColIndex(df, ORDER_DATE)] =
                to_datetime(df.rows[i][ColIndex(df, ORDER_DATE)])]]]

load_data(table) == ParseDateColumn(read_sql(table))

---------------------------------------------------------------------------
(* src/app.py: filters *)

\* timestamps <<y, m, d>> in chronological order
DateLE(a, b) ==
    \/ a[1] < b[1]
    \/ a[1] = b[1] /\ a[2] < b[2]
    \/ a[1] = b[1] /\ a[2] = b[2] /\ a[3] <= b[3]

\* the cells of a column (none when the frame has no such column, which the
\* script reaches only by raising KeyError)
Column(df, name) ==
    IF HasCol(df, name)
    THEN [i \in 1..Len(df.rows) |-> Cell(df, df.rows[i], name)]
    ELSE <<>>

\* df[name].dropna().unique()
Options(df, name) == {c[1] : c \in {x \in Range(Column(df, name)) : ~IsNull(x)}}

ValidDates(df) == {x \in Range(Column(df, ORDER_DATE)) : ~IsNull(x)}

\* Series.min / Series.max of the dates: NaT when there is none
min_date(df) ==
    IF ValidDates(df) = {} THEN NaT
    ELSE CHOOSE x \in ValidDates(df) : \A y \in ValidDates(df) : DateLE(x, y)

max_date(df) ==
    IF ValidDates(df) = {} THEN NaT
    ELSE CHOOSE x \in ValidDates(df) : \A y \in ValidDates(df) : DateLE(y, x)

\* an empty selection read as "no filter": every row passes
isin_or_no_filter(cell, values) ==
    values = {} \/ (~IsNull(cell) /\ cell[1] \in values)

\* Series.isin: a missing value is in no selection
isin(cell, values) == ~IsNull(cell) /\ cell[1] \in values

\* inclusive="left": the end date itself is left out
between_left(cell, left, right) ==
    ~IsNull(cell) /\ DateLE(left, cell) /\ DateLE(cell, right) /\ cell # right

\* Series.between, inclusive="both": NaT is between nothing
between(cell, left, right) ==
    ~IsNull(cell) /\ DateLE(left, cell) /\ DateLE(cell, right)

mask(df, row, regions, categories, date_range) ==
    /\ isin(Cell(df, row, REGION), regions)
    /\ isin(Cell(df, row, CATEGORY), categories)
    /\ between(Cell(df, row, ORDER_DATE), date_range[1], date_range[2])

filtered_df(df, regions, categories, date_range) ==
    [df EXCEPT !.rows =
        SelectSeq(df.rows, LAMBDA row : mask(df, row, regions, categories, date_range))]

\* what the three widgets can return for a frame: any subset of the options,
\* and one or two dates of the frame's date span (the dates picked here are
\* dates of the frame)
DateRanges(df) ==
    {<<a, b>> : a \in ValidDates(df), b \in ValidDates(df)} \cup
    {<<a>> : a \in ValidDates(df)}

---------------------------------------------------------------------------
(* src/app.py: KPIs and charts *)

\* Series.sum skips missing values
RECURSIVE SumCells(_)
SumCells(cells) ==
    IF cells = <<>> THEN 0
    ELSE (IF IsNull(Head(cells)) THEN 0 ELSE Head(cells)[1]) + SumCells(Tail(cells))

total_sales(fdf) == SumCells(Column(fdf, SALES))

\* Series.mean: NaN (<<>>) of no rows, else the quotient num/den
avg_order_value(fdf) ==
    LET present == SelectSeq(Column(fdf, SALES), LAMBDA c : ~IsNull(c))
    IN  IF present = <<>> THEN <<>> ELSE <<SumCells(present), Len(present)>>

unique_customers(fdf) == Cardinality(Options(fdf, CUSTOMER_ID))

RowsWhere(df, name, key) ==
    SelectSeq(df.rows, LAMBDA row : Cell(df, row, name) = <<key>>)

\* df.groupby(name)["sales"].sum(): one entry per present key
GroupSum(df, name) ==
    [key \in Options(df, name) |->
        SumCells([i \in 1..Len(RowsWhere(df, name, key)) |->
                     Cell(df, RowsWhere(df, name, key)[i], SALES)])]

\* the texts of the sample data in sort order: groupby sorts its keys
Collation == <<"A", "B", "EU", "Gadget", "US", "Widget">>

SortPos(key) == CHOOSE i \in 1..Len(Collation) : Collation[i] = key

\* Series.idxmax: the first label, in index order, of the largest value
idxmax(series) ==
    CHOOSE k \in DOMAIN series :
        /\ \A j \in DOMAIN series : series[j] <= series[k]
        /\ \A j \in DOMAIN series : series[j] = series[k] => SortPos(k) <= SortPos(j)

\* round(n / d) to the nearest integer, halves to even (numpy), for d > 0
RoundHalfEven(n, d) ==
    LET q == n \div d
        rem == n % d
    IN  IF 2 * rem < d THEN q
        ELSE IF 2 * rem > d THEN q + 1
        ELSE IF q % 2 = 0 THEN q ELSE q + 1

\* the "* 100" forgotten: the fraction, rounded to two decimals, taken as
\* the percentage
SharePercentUnscaled(sum, total) == RoundHalfEven(100 * sum, total)

\* (sum / total_sales * 100).round(2), held in hundredths of a percent
SharePercent(sum, total) == RoundHalfEven(10000 * sum, total)

EmptySeries == [k \in {} |-> 0]

region_share(fdf) ==
    IF total_sales(fdf) > 0
    THEN [key \in Options(fdf, REGION) |->
             SharePercent(GroupSum(fdf, REGION)[key], total_sales(fdf))]
    ELSE EmptySeries

\* guarded like region_share, by the total instead of by emptiness
top_product_if_positive(fdf) ==
    IF total_sales(fdf) > 0 THEN idxmax(GroupSum(fdf, PRODUCT_NAME)) ELSE "N/A"

top_product(fdf) ==
    IF fdf.rows # <<>> THEN idxmax(GroupSum(fdf, PRODUCT_NAME)) ELSE "N/A"

best_region(fdf) ==
    IF DOMAIN region_share(fdf) # {} THEN idxmax(region_share(fdf)) ELSE "N/A"

\* order_date.dt.to_period("M")
Period(ts) == <<ts[1], ts[2]>>

monthly_sales(fdf) ==
    [m \in {Period(x) : x \in ValidDates(fdf)} |->
        SumCells([i \in 1..Len(fdf.rows) |->
                     IF Period(Cell(fdf, fdf.rows[i], ORDER_DATE)) = m
                     THEN Cell(fdf, fdf.rows[i], SALES) ELSE NULL])]

\* the two figures, or none and the warning
Charts(fdf) ==
    IF fdf.rows # <<>>
    THEN <<GroupSum(fdf, REGION), monthly_sales(fdf)>>
    ELSE <<>>

RenderOutput(df, regions, categories, date_range) ==
    LET fdf == filtered_df(df, regions, categories, date_range)
    IN  [ regions |-> regions,
          categories |-> categories,
          date_range |-> date_range,
          filtered_df |-> fdf,
          total_sales |-> total_sales(fdf),
          avg_order_value |-> avg_order_value(fdf),
          unique_customers |-> unique_customers(fdf),
          top_product |-> top_product(fdf),
          region_share |-> region_share(fdf),
          best_region |-> best_region(fdf),
          charts |-> Charts(fdf),
          warning |-> (fdf.rows = <<>>) ]

NoOutput ==
    [ regions |-> {}, categories |-> {}, date_range |-> <<>>,
      filtered_df |-> EmptyDf, total_sales |-> 0, avg_order_value |-> <<>>,
      unique_customers |-> 0, top_product |-> "", region_share |-> EmptySeries,
      best_region |-> "", charts |-> <<>>, warning |-> FALSE ]

---------------------------------------------------------------------------
(* src/app.py: one script run per user interaction.  The sessions' script  *)
(* runs are threads of one process and share the memo of load_data: a run  *)
(* looks the value up, and on a miss runs the body and stores what it      *)
(* returned.  Two runs can both miss before either has stored.             *)

Requests == {1, 2}

\* the cached value is ignored and the table queried again (ttl=0)
CacheHitRequery(r) ==
    /\ reqPc[r] = "start"
    /\ cache # <<>>
    /\ HasCol(dbTable, ORDER_DATE)
    /\ reqDf' = [reqDf EXCEPT ![r] = load_data(dbTable)]
    /\ served' = [served EXCEPT ![r] = "cache"]
    /\ reqPc' = [reqPc EXCEPT ![r] = "loaded"]
    /\ UNCHANGED <<cache, out, dbTable, readAt, racing>>
    /\ UNCHANGED etlVars

\* st.cache_data holds a value for load_data(): the call returns it
CacheHit(r) ==
    /\ reqPc[r] = "start"
    /\ cache # <<>>
    /\ reqDf' = [reqDf EXCEPT ![r] = cache[1]]
    /\ served' = [served EXCEPT ![r] = "cache"]
    /\ reqPc' = [reqPc EXCEPT ![r] = "loaded"]
    /\ UNCHANGED <<cache, out, dbTable, readAt, racing>>
    /\ UNCHANGED etlVars

\* no value cached: the body of load_data runs
CacheMiss(r) ==
    /\ reqPc[r] = "start"
    /\ cache = <<>>
    /\ reqPc' = [reqPc EXCEPT ![r] = "query"]
    /\ racing' = \E other \in Requests \ {r} : reqPc[other] \in {"query", "store"}
    /\ UNCHANGED <<cache, reqDf, served, out, dbTable, readAt>>
    /\ UNCHANGED etlVars

Query(r) ==
    /\ reqPc[r] = "query"
    /\ HasCol(dbTable, ORDER_DATE)
    /\ reqDf' = [reqDf EXCEPT ![r] = load_data(dbTable)]
    /\ reqPc' = [reqPc EXCEPT ![r] = "store"]
    /\ readAt' = [readAt EXCEPT ![r] = tableVersion]
    /\ UNCHANGED <<cache, served, out, dbTable, racing>>
    /\ UNCHANGED etlVars

\* df["order_date"] of a table without that column: KeyError, nothing cached
QueryFault(r) ==
    /\ reqPc[r] = "query"
    /\ ~HasCol(dbTable, ORDER_DATE)
    /\ reqPc' = [reqPc EXCEPT ![r] = "fault"]
    /\ racing' = FALSE
    /\ UNCHANGED <<cache, reqDf, served, out, dbTable, readAt>>
    /\ UNCHANGED etlVars

\* the cache is filled by a second query and not with the value computed
StoreRequery(r) ==
    /\ reqPc[r] = "store"
    /\ cache' = IF HasCol(dbTable, ORDER_DATE) THEN <<load_data(dbTable)>> ELSE <<reqDf[r]>>
    /\ served' = [served EXCEPT ![r] = "db"]
    /\ reqPc' = [reqPc EXCEPT ![r] = "loaded"]
    /\ UNCHANGED <<reqDf, out, dbTable, readAt, racing>>
    /\ UNCHANGED etlVars

\* the value load_data returned is cached and handed to the script
Store(r) ==
    /\ reqPc[r] = "store"
    /\ cache' = <<reqDf[r]>>
    /\ served' = [served EXCEPT ![r] = "db"]
    /\ reqPc' = [reqPc EXCEPT ![r] = "loaded"]
    /\ UNCHANGED <<reqDf, out, dbTable, readAt, racing>>
    /\ UNCHANGED etlVars

UsedColumns == {REGION, CATEGORY, SALES, CUSTOMER_ID, PRODUCT_NAME}

\* the script raises before anything is shown: a column it reads is not in
\* the frame (KeyError), the frame has no date for st.date_input to span, or
\* the date picker holds one date only (date_range[1] is out of range)
ScriptRaises(df, date_range) ==
    \/ \E name \in UsedColumns : ~HasCol(df, name)
    \/ min_date(df) = NaT
    \/ Len(date_range) # 2

Render(r, regions, categories, date_range) ==
    /\ reqPc[r] = "loaded"
    /\ ~ScriptRaises(reqDf[r], date_range)
    /\ regions \subseteq Options(reqDf[r], REGION)
    /\ categories \subseteq Options(reqDf[r], CATEGORY)
    /\ date_range \in DateRanges(reqDf[r])
    /\ out' = [out EXCEPT ![r] = RenderOutput(reqDf[r], regions, categories, date_range)]
    /\ reqPc' = [reqPc EXCEPT ![r] = "rendered"]
    /\ UNCHANGED <<cache, reqDf, served, dbTable, readAt, racing>>
    /\ UNCHANGED etlVars

RenderFault(r, date_range) ==
    /\ reqPc[r] = "loaded"
    /\ ScriptRaises(reqDf[r], date_range)
    /\ reqPc' = [reqPc EXCEPT ![r] = "fault"]
    /\ UNCHANGED <<cache, reqDf, served, out, dbTable, readAt, racing>>
    /\ UNCHANGED etlVars

\* the next user interaction runs the script again
Rerun(r) ==
    /\ reqPc[r] \in {"rendered", "fault"}
    /\ reqPc' = [reqPc EXCEPT ![r] = "start"]
    /\ reqDf' = [reqDf EXCEPT ![r] = EmptyDf]
    /\ served' = [served EXCEPT ![r] = "none"]
    /\ out' = [out EXCEPT ![r] = NoOutput]
    /\ readAt' = [readAt EXCEPT ![r] = 0]
    /\ racing' = FALSE
    /\ UNCHANGED <<cache, dbTable>>
    /\ UNCHANGED etlVars

\* st.cache_data.clear(), or "Clear cache" in the app menu
ClearCache ==
    /\ cache # <<>>
    /\ cache' = <<>>
    /\ UNCHANGED <<reqPc, reqDf, served, out, dbTable, readAt, racing>>
    /\ UNCHANGED etlVars

\* the dashboard process restarts: the cache and the running scripts are gone
Restart ==
    /\ cache # <<>>
    /\ cache' = <<>>
    /\ reqPc' = [r \in Requests |-> "start"]
    /\ reqDf' = [r \in Requests |-> EmptyDf]
    /\ served' = [r \in Requests |-> "none"]
    /\ out' = [r \in Requests |-> NoOutput]
    /\ readAt' = [r \in Requests |-> 0]
    /\ racing' = FALSE
    /\ UNCHANGED dbTable
    /\ UNCHANGED etlVars

\* the dates the picker may hold for a frame; one date when it has no span
PickerValues(df) == IF ValidDates(df) = {} THEN {<<>>} ELSE DateRanges(df)

ScriptStep(r) ==
    \/ CacheHit(r)
    \/ CacheMiss(r)
    \/ Query(r)
    \/ QueryFault(r)
    \/ Store(r)
    \/ \E regions \in SUBSET Options(reqDf[r], REGION) :
       \E categories \in SUBSET Options(reqDf[r], CATEGORY) :
       \E date_range \in DateRanges(reqDf[r]) :
           Render(r, regions, categories, date_range)
    \/ \E date_range \in PickerValues(reqDf[r]) : RenderFault(r, date_range)
    \/ Rerun(r)

---------------------------------------------------------------------------
(* Specifications *)

InitEtlState ==
    /\ etlPc = "idle"
    /\ etlDf = EmptyDf
    /\ log = <<>>
    /\ runs = 0
    /\ tableAtStart = dbTable
    /\ runResults = <<>>
    /\ tableVersion = 0

InitDashState ==
    /\ cache = <<>>
    /\ reqPc = [r \in Requests |-> "start"]
    /\ reqDf = [r \in Requests |-> EmptyDf]
    /\ served = [r \in Requests |-> "none"]
    /\ out = [r \in Requests |-> NoOutput]
    /\ readAt = [r \in Requests |-> 0]
    /\ racing = FALSE

\* the batch job alone, over every source file and several prior tables
InitETL ==
    /\ file \in SourceFiles
    /\ dbTable \in PriorTables
    /\ InitEtlState
    /\ InitDashState

NextETL == EtlStep

SpecETL == InitETL /\ [][NextETL]_vars

\* tables a dashboard can find: every table of up to MaxRows sample rows, and
\* tables loaded from files with other headers
DashTables ==
    {[columns |-> CleanHeader, rows |-> rows] : rows \in SeqsUpTo(TableRows, MaxRows)}
        \cup {transform(read_csv(MkFile(TRUE, h, <<RowEU>>))) :
                 h \in {RawHeaderAlt, RawHeaderNoDate}}

\* one dashboard session over every such table
InitDash ==
    /\ file = UnreadableFile
    /\ dbTable \in DashTables
    /\ InitEtlState
    /\ InitDashState

NextDash == ScriptStep(1)

SpecDash == InitDash /\ [][NextDash]_vars

\* the whole system: the job, two dashboard script runs, one cache
FullFiles ==
    { MkFile(TRUE, RawHeader, <<RowUS, RowNoSales>>),
      MkFile(TRUE, RawHeaderNoDate, <<RowEU>>),
      UnreadableFile }

FullTables == { [columns |-> CleanHeader, rows |-> <<RowEU>>] }

Init ==
    /\ file \in FullFiles
    /\ dbTable \in FullTables
    /\ InitEtlState
    /\ InitDashState

Next ==
    \/ EtlStep
    \/ \E r \in Requests : ScriptStep(r)
    \/ ClearCache
    \/ Restart

Spec == Init /\ [][Next]_vars

---------------------------------------------------------------------------
(* Claims about the batch job *)

Stages == {"extract", "transform", "load"}

\* C1: the load is a full replace: after a run that exits 0 the table is
\* exactly the cleaned record set of that run, whatever the table held
\* before, and every successful run against the same file leaves the same
\* table (same rows, same row count).
C1_FullReplace ==
    /\ etlPc = "exit0" =>
          /\ dbTable.columns = etlDf.columns
          /\ dbTable.rows = etlDf.rows
          /\ \A i \in 1..Len(dbTable.rows) :
                 \E j \in 1..Len(file.rows) : dbTable.rows[i] = file.rows[j]
    /\ \A i, j \in 1..Len(runResults) :
          /\ runResults[i] = runResults[j]
          /\ Len(runResults[i].rows) = Len(runResults[j].rows)

\* a second successful run over a table that already held rows
C1_Witness ==
    /\ etlPc = "exit0"
    /\ Len(runResults) = 2
    /\ tableAtStart.rows # <<>>
    /\ dbTable.rows # <<>>
    /\ dbTable.rows # tableAtStart.rows \o etlDf.rows

IncompleteAt(rows) == {i \in 1..Len(rows) : \E k \in 1..Len(rows[i]) : rows[i][k] = <<>>}

CompleteAt(rows) == (1..Len(rows)) \ IncompleteAt(rows)

\* the k-th smallest element of a set of indices
KthOf(S, k) == CHOOSE i \in S : Cardinality({j \in S : j < i}) = k - 1

KeptInOrder(input, output) ==
    /\ Len(output) = Cardinality(CompleteAt(input))
    /\ \A k \in 1..Len(output) : output[k] = input[KthOf(CompleteAt(input), k)]

Transformed ==
    \/ etlPc \in {"load", "exit0"}
    \/ etlPc = "exit1" /\ Last(log).stage = "load"

\* C2: transform keeps exactly the rows without a missing field, unchanged
\* and in their order, and after a run that exits 0 the table has the
\* input's row count minus the number of incomplete rows.
C2_DropIncomplete ==
    /\ Transformed => KeptInOrder(file.rows, etlDf.rows)
    /\ etlPc = "exit0" =>
          Len(dbTable.rows) = Len(file.rows) - Cardinality(IncompleteAt(file.rows))

\* a file with a row lacking its sales field, loaded without that row
C2_Witness ==
    /\ etlPc = "exit0"
    /\ file.rows = <<RowEU, RowNoSales>>
    /\ dbTable.rows = <<RowEU>>

C3_FailedRun ==
    etlPc = "exit1" =>
        /\ log # <<>>
        /\ Last(log).level = "ERROR"
        /\ \A i \in 1..Len(log) : i < Len(log) => log[i].level = "INFO"
        /\ \A i \in 1..Len(log) : log[i] # LogLine("INFO", "load")
        /\ Last(log).stage \in {"extract", "transform"} => dbTable = tableAtStart

C3_FailingStep ==
    /\ \A s \in Stages :
          (etlPc = s /\ etlPc' = "exit1") =>
              /\ log' = Append(log, LogLine("ERROR", s))
              /\ runResults' = runResults
              /\ s # "load" => dbTable' = dbTable
    /\ (log' # log /\ log' # <<>> /\ Last(log').level = "ERROR") =>
          etlPc \in Stages /\ etlPc' = "exit1"
    /\ etlPc = "exit1" =>
          \/ etlPc' = "exit1" /\ dbTable' = dbTable /\ log' = log
          \/ etlPc' = "extract" /\ runs' = runs + 1 /\ dbTable' = dbTable

\* C3: a failing stage logs the error and ends the job: the error line is
\* the last line of the run, no later stage runs, the run is not a success,
\* nothing happens to a failed job but a new start from outside, and after
\* a failure in extract or transform the table is as it was before the run.
C3_FailureIsFatal == [](C3_FailedRun) /\ [][C3_FailingStep]_vars

\* transform failed over a table that held rows, which are still there
C3_Witness ==
    /\ etlPc = "exit1"
    /\ Last(log) = LogLine("ERROR", "transform")
    /\ dbTable.rows # <<>>
    /\ dbTable = tableAtStart

---------------------------------------------------------------------------
(* Claims about the dashboard's filters and metrics *)

Rendered(r) == reqPc[r] = "rendered"

DayNumber(ts) == ts[1] * 10000 + ts[2] * 100 + ts[3]

Selected(df, row, o) ==
    /\ \E v \in o.regions : Cell(df, row, REGION) = <<v>>
    /\ \E v \in o.categories : Cell(df, row, CATEGORY) = <<v>>
    /\ Cell(df, row, ORDER_DATE) # <<>>
    /\ DayNumber(o.date_range[1]) <= DayNumber(Cell(df, row, ORDER_DATE))
    /\ DayNumber(Cell(df, row, ORDER_DATE)) <= DayNumber(o.date_range[2])

SelectedAt(df, o) == {i \in 1..Len(df.rows) : Selected(df, df.rows[i], o)}

\* C4: the filtered subset is exactly the rows of the loaded table, unchanged
\* and in order, whose region is selected, whose category is selected and
\* whose order_date is in [start, end], both ends included; no row with an
\* absent region, category or order_date is in it.
C4_FilteredSubset ==
    \A r \in Requests : Rendered(r) =>
        LET df == reqDf[r]
            o == out[r]
            fdf == out[r].filtered_df
        IN  /\ fdf.columns = df.columns
            /\ Len(fdf.rows) = Cardinality(SelectedAt(df, o))
            /\ \A k \in 1..Len(fdf.rows) : fdf.rows[k] = df.rows[KthOf(SelectedAt(df, o), k)]
            /\ \A k \in 1..Len(fdf.rows) :
                   /\ Cell(fdf, fdf.rows[k], REGION) # <<>>
                   /\ Cell(fdf, fdf.rows[k], CATEGORY) # <<>>
                   /\ Cell(fdf, fdf.rows[k], ORDER_DATE) # <<>>

\* a row dated on the end date is kept, and a row without a region is left
\* out although its category and date are selected
C4_Witness ==
    /\ Rendered(1)
    /\ reqDf[1].rows = load_data([columns |-> CleanHeader, rows |-> <<RowUS, RowNoRegion>>]).rows
    /\ out[1].regions = {"US"}
    /\ out[1].categories = {"A", "B"}
    /\ out[1].date_range = <<<<2024, 1, 5>>, <<2024, 2, 10>>>>
    /\ Len(out[1].filtered_df.rows) = 1
    /\ Cell(reqDf[1], out[1].filtered_df.rows[1], ORDER_DATE) = out[1].date_range[2]

\* C5: with no region or no category selected the filtered subset is empty,
\* total sales 0, top product and best region "N/A", and the warning is
\* shown in place of the charts; with a non-empty subset both charts are
\* rendered.
C5_EmptySelection ==
    \A r \in Requests : Rendered(r) =>
        LET o == out[r]
        IN  /\ (o.regions = {} \/ o.categories = {}) =>
                  /\ o.filtered_df.rows = <<>>
                  /\ o.total_sales = 0
                  /\ o.top_product = "N/A"
                  /\ o.best_region = "N/A"
                  /\ o.charts = <<>>
                  /\ o.warning
            /\ o.filtered_df.rows # <<>> => Len(o.charts) = 2 /\ ~o.warning

\* no region selected over a table whose rows pass the other two filters
C5_Witness ==
    /\ Rendered(1)
    /\ out[1].regions = {}
    /\ out[1].categories = {"A", "B"}
    /\ Len(reqDf[1].rows) = 2
    /\ \A i \in 1..2 :
          /\ Cell(reqDf[1], reqDf[1].rows[i], REGION) # <<>>
          /\ between(Cell(reqDf[1], reqDf[1].rows[i], ORDER_DATE),
                     out[1].date_range[1], out[1].date_range[2])
          /\ isin(Cell(reqDf[1], reqDf[1].rows[i], CATEGORY), {"A", "B"})
    /\ out[1].warning

\* the summed sales of the rows of a frame with a given value in a column
SalesOf(df, name, key) ==
    SumCells([i \in 1..Len(df.rows) |->
                 IF Cell(df, df.rows[i], name) = <<key>>
                 THEN Cell(df, df.rows[i], SALES) ELSE <<>>])

\* C6 (its first statement): whenever the best region shown is not "N/A", no
\* region of the filtered subset has strictly larger summed sales than it.
C6_BestRegionHasLargestSales ==
    \A r \in Requests : Rendered(r) =>
        LET fdf == out[r].filtered_df
            best == out[r].best_region
        IN  best # "N/A" =>
                \A k \in Options(fdf, REGION) :
                    SalesOf(fdf, REGION, k) <= SalesOf(fdf, REGION, best)

Abs(x) == IF x < 0 THEN -x ELSE x

RECURSIVE SumOver(_, _)
SumOver(f, S) ==
    IF S = {} THEN 0
    ELSE LET k == CHOOSE x \in S : TRUE
         IN  f[k] + SumOver(f, S \ {k})

\* shares are in hundredths of a percent: share * total / 100 is
\* share * total / 10000 here, and half a unit is the rounding error of
\* one share
WithinRounding(o) ==
    2 * Abs(SumOver([k \in DOMAIN o.region_share |-> o.region_share[k] * o.total_sales],
                    DOMAIN o.region_share)
            - 10000 * o.total_sales)
        <= Cardinality(DOMAIN o.region_share) * Abs(o.total_sales)

C8_TopProduct ==
    \A r \in Requests : Rendered(r) =>
        LET fdf == out[r].filtered_df
            top == out[r].top_product
        IN  /\ top = "N/A" <=> fdf.rows = <<>>
            /\ fdf.rows # <<>> =>
                  /\ top \in Options(fdf, PRODUCT_NAME)
                  /\ \A p \in Options(fdf, PRODUCT_NAME) :
                         SalesOf(fdf, PRODUCT_NAME, p) <= SalesOf(fdf, PRODUCT_NAME, top)

\* a sale and its refund: a non-empty subset with total sales 0
C8_Witness ==
    /\ Rendered(1)
    /\ Len(out[1].filtered_df.rows) = 2
    /\ out[1].total_sales = 0
    /\ out[1].top_product \in {"Gadget", "Widget"}
    /\ out[1].best_region = "N/A"

---------------------------------------------------------------------------
(* Claims about the cache *)

SameButDates(df, table) ==
    /\ df.columns = table.columns
    /\ Len(df.rows) = Len(table.rows)
    /\ \A i \in 1..Len(df.rows) : \A c \in 1..Len(table.columns) :
           table.columns[c] # ORDER_DATE => df.rows[i][c] = table.rows[i][c]

C9_Step ==
    /\ \A r \in Requests :
          (reqPc[r] = "start" /\ reqPc'[r] # "start" /\ cache # <<>>) =>
              /\ reqPc'[r] = "loaded"
              /\ served'[r] = "cache"
              /\ reqDf'[r] = cache[1]
              /\ cache' = cache
    /\ \A r \in Requests :
          (reqPc[r] = "loaded" /\ reqPc'[r] = "rendered") =>
              /\ reqDf'[r] = reqDf[r]
              /\ \A k \in 1..Len(out'[r].filtered_df.rows) :
                     \E i \in 1..Len(reqDf[r].rows) :
                         out'[r].filtered_df.rows[k] = reqDf[r].rows[i]
    /\ dbTable' # dbTable => cache' = cache /\ reqDf' = reqDf /\ out' = out
    /\ (cache # <<>> /\ cache' # cache) =>
          \/ cache' = <<>>
          \/ \E r \in Requests : reqPc[r] = "store" /\ cache' = <<reqDf[r]>>
    /\ \A r \in Requests :
          (reqPc[r] = "start" /\ reqPc'[r] # "start" /\ cache = <<>>) =>
              reqPc'[r] = "query"
    /\ \A r \in Requests :
          (reqPc[r] = "query" /\ reqPc'[r] = "store") =>
              SameButDates(reqDf'[r], dbTable)

Fetched(r) ==
    \/ reqPc[r] = "store"
    \/ reqPc[r] \in {"loaded", "rendered", "fault"} /\ served[r] = "db"

SameContents(r1, r2) ==
    /\ reqDf[r1] = reqDf[r2]
    /\ (served[r1] = "db" /\ served[r2] = "db" /\ cache # <<>>) => cache = <<reqDf[r1]>>

=============================================================================
